---- MODULE Spec2Model ----
(***************************************************************************)
(* Model of the `wad` crate (wad/src/lib.rs, wad/src/wad_de.rs).           *)
(*                                                                         *)
(* Bytes are naturals 0..255, byte strings and names are sequences of      *)
(* bytes (a Rust String is its UTF-8 bytes).  An i32 is a TLA+ integer in  *)
(* -2^31 .. 2^31-1.  The wider integers of the byte-cursor decoder are     *)
(* kept as little-endian limb sequences, one limb per byte of the type.    *)
(***************************************************************************)
EXTENDS Integers, Sequences, FiniteSets, TLC

VARIABLES src, kind, opened, wad, iter, written, reopened, shape, input, parsed, decoded

vars == <<src, kind, opened, wad, iter, written, reopened, shape, input, parsed, decoded>>

None == [tag |-> "None"]
Ok(v) == [tag |-> "Ok", val |-> v]
Err(k, d) == [tag |-> "Err", kind |-> k, detail |-> d]
Panic(w) == [tag |-> "Panic", what |-> w]

I32Max == 2147483647

NameFieldLen == 8

HeaderLen == 12

EntryLen == 16

(***************************************************************************)
(* Bounds of the explored inputs.                                          *)
(***************************************************************************)
MaxLumps == 4
MaxBadLumps == 2
MaxExtra == 1
MaxWriteLumps == 3

(***************************************************************************)
(* Byte-level helpers.                                                     *)
(***************************************************************************)
IWAD == <<73, 87, 65, 68>>
PWAD == <<80, 87, 65, 68>>

Zeros(n) == [i \in 1..n |-> 0]

RECURSIVE SumLen(_)
SumLen(ss) == IF ss = <<>> THEN 0 ELSE Len(Head(ss)) + SumLen(Tail(ss))

\* i32::from_le_bytes, as used by ReadBytesExt::read_i32::<LittleEndian>.
I32FromLE(b) ==
    b[1] + b[2] * 256 + b[3] * 65536
         + (IF b[4] >= 128 THEN b[4] - 256 ELSE b[4]) * 16777216

\* i32::to_le_bytes, as used by WriteBytesExt::write_i32::<LittleEndian>.
I32ToLE(v) ==
    LET u == IF v >= 0 THEN v ELSE -(v + 1)
        d(i) == (u \div (256 ^ i)) % 256
    IN  [i \in 1..4 |-> IF v >= 0 THEN d(i - 1) ELSE 255 - d(i - 1)]

\* `len as i32`: wraps modulo 2^32 into the signed range.
AsI32(n) == IF n <= I32Max THEN n ELSE (n - I32Max) - I32Max - 2

\* String::from_utf8: the well-formed UTF-8 byte sequences.
RECURSIVE ValidUtf8(_)
ValidUtf8(s) ==
    IF s = <<>> THEN TRUE
    ELSE LET n == Len(s)
             b == s[1]
             In(i, lo, hi) == i <= n /\ s[i] >= lo /\ s[i] <= hi
             Cont(i) == In(i, 128, 191)
             Rest(k) == SubSeq(s, k + 1, n)
         IN  IF b <= 127 THEN ValidUtf8(Rest(1))
             ELSE IF b >= 194 /\ b <= 223
                  THEN Cont(2) /\ ValidUtf8(Rest(2))
             ELSE IF b = 224
                  THEN In(2, 160, 191) /\ Cont(3) /\ ValidUtf8(Rest(3))
             ELSE IF (b >= 225 /\ b <= 236) \/ b = 238 \/ b = 239
                  THEN Cont(2) /\ Cont(3) /\ ValidUtf8(Rest(3))
             ELSE IF b = 237
                  THEN In(2, 128, 159) /\ Cont(3) /\ ValidUtf8(Rest(3))
             ELSE IF b = 240
                  THEN In(2, 144, 191) /\ Cont(3) /\ Cont(4) /\ ValidUtf8(Rest(4))
             ELSE IF b >= 241 /\ b <= 243
                  THEN Cont(2) /\ Cont(3) /\ Cont(4) /\ ValidUtf8(Rest(4))
             ELSE IF b = 244
                  THEN In(2, 128, 143) /\ Cont(3) /\ Cont(4) /\ ValidUtf8(Rest(4))
             ELSE FALSE

(***************************************************************************)
(* The byte source (dyn FileLike): a File, or a Cursor over the bytes      *)
(* extracted from a zip container.                                         *)
(***************************************************************************)
Kinds == {"File", "Cursor"}

\* f.seek(SeekFrom::Start(off as u64)).  A negative i32 becomes a u64 above
\* i64::MAX: lseek rejects it on a File, a Cursor just stores it.  Any
\* position past the end reads the same, so it is kept as Len(s) + 1.
SeekStart(k, s, off) ==
    IF off < 0
    THEN IF k = "File" THEN Err("io", "InvalidInput") ELSE Ok(Len(s) + 1)
    ELSE Ok(off)

\* f.read_exact(&mut [0; n]) at position pos.
ReadExact(s, pos, n) ==
    IF n = 0 THEN Ok([bytes |-> <<>>, pos |-> pos])
    ELSE IF pos <= Len(s) /\ n <= Len(s) - pos
         THEN Ok([bytes |-> SubSeq(s, pos + 1, pos + n), pos |-> pos + n])
         ELSE Err("io", "UnexpectedEof")

\* Vec::with_capacity(n as usize) / vec![0; n as usize] for an i32 n: a
\* negative n is a usize above isize::MAX, which panics (capacity overflow).
CapacityOverflow(n) == n < 0

(***************************************************************************)
(* WadHeader::new                                                          *)
(***************************************************************************)
\* Mutation: only the patch-archive magic is recognised.
MagicOkPwadOnly(identification) == identification = PWAD

MagicOk(identification) == identification \in {IWAD, PWAD}

WadHeaderNew(s) ==
    LET r1 == ReadExact(s, 0, 4) IN
    IF r1.tag = "Err" THEN Err("CouldntReadHeader", r1.detail)
    ELSE IF ~MagicOk(r1.val.bytes)
         THEN Err("InvalidMagicNumber", r1.val.bytes)
    ELSE LET r2 == ReadExact(s, r1.val.pos, 4) IN
    IF r2.tag = "Err" THEN Err("CouldntReadHeader", r2.detail)
    ELSE LET r3 == ReadExact(s, r2.val.pos, 4) IN
    IF r3.tag = "Err" THEN Err("CouldntReadHeader", r3.detail)
    ELSE Ok([num_lumps |-> I32FromLE(r2.val.bytes),
             directory_offset |-> I32FromLE(r3.val.bytes)])

(***************************************************************************)
(* DirectoryEntry::new                                                     *)
(***************************************************************************)
\* A name field without its trailing run of NUL bytes.
RECURSIVE StripTrailingNul(_)
StripTrailingNul(field) ==
    IF field = <<>> THEN <<>>
    ELSE IF field[Len(field)] = 0
         THEN StripTrailingNul(SubSeq(field, 1, Len(field) - 1))
         ELSE field

\* name.into_iter().filter(|c| *c != b'\0').collect()
RECURSIVE FilterNul(_)
FilterNul(field) ==
    IF field = <<>> THEN <<>>
    ELSE IF Head(field) = 0 THEN FilterNul(Tail(field))
         ELSE <<Head(field)>> \o FilterNul(Tail(field))

DirectoryEntryNew(s, pos) ==
    LET r1 == ReadExact(s, pos, 4) IN
    IF r1.tag = "Err" THEN Err("CouldntReadEntry", r1.detail)
    ELSE LET r2 == ReadExact(s, r1.val.pos, 4) IN
    IF r2.tag = "Err" THEN Err("CouldntReadEntry", r2.detail)
    ELSE LET r3 == ReadExact(s, r2.val.pos, NameFieldLen) IN
    IF r3.tag = "Err" THEN Err("CouldntReadEntry", r3.detail)
    ELSE LET name == FilterNul(r3.val.bytes) IN
    IF ~ValidUtf8(name) THEN Err("InvalidLumpName", name)
    ELSE Ok([entry |-> [offset |-> I32FromLE(r1.val.bytes),
                        size |-> I32FromLE(r2.val.bytes),
                        name |-> name],
             pos |-> r3.val.pos])

(***************************************************************************)
(* Lump::new                                                               *)
(***************************************************************************)
LumpNew(k, s, entry) ==
    IF CapacityOverflow(entry.size) THEN Panic("capacity overflow")
    ELSE LET sk == SeekStart(k, s, entry.offset) IN
    IF sk.tag = "Err" THEN Err("CouldntReadLump", sk.detail)
    ELSE LET r == ReadExact(s, sk.val, entry.size) IN
    IF r.tag = "Err" THEN Err("CouldntReadLump", r.detail)
    ELSE Ok([name |-> entry.name, data |-> r.val.bytes])

(***************************************************************************)
(* Wad::new, after the byte source f has been chosen.                      *)
(***************************************************************************)
\* for _ in 0..num_lumps { directory.push(DirectoryEntry::new(f)?) }
RECURSIVE ReadDirectory(_, _, _, _)
ReadDirectory(s, pos, count, directory) ==
    IF count <= 0 THEN Ok(directory)
    ELSE LET e == DirectoryEntryNew(s, pos) IN
         IF e.tag # "Ok" THEN e
         ELSE ReadDirectory(s, e.val.pos, count - 1, Append(directory, e.val.entry))

\* Mutation: an insert that keeps the position already recorded for a name.
IndexInsertFirst(lump_index, name, position) ==
    [x \in DOMAIN lump_index \cup {name} |->
        IF x \in DOMAIN lump_index THEN lump_index[x] ELSE position]

\* lump_index.insert(entry.name.clone(), lumps.len())
IndexInsert(lump_index, name, position) ==
    [x \in DOMAIN lump_index \cup {name} |->
        IF x = name THEN position ELSE lump_index[x]]

\* for entry in &directory { lump_index.insert(..); lumps.push(Lump::new(..)?) }
RECURSIVE ReadLumps(_, _, _, _, _)
ReadLumps(k, s, rest, lumps, lump_index) ==
    IF rest = <<>> THEN Ok([lumps |-> lumps, lump_index |-> lump_index])
    ELSE LET entry == Head(rest)
             index2 == IndexInsert(lump_index, entry.name, Len(lumps))
             l == LumpNew(k, s, entry)
         IN  IF l.tag # "Ok" THEN l
             ELSE ReadLumps(k, s, Tail(rest), Append(lumps, l.val), index2)

\* Mutation: the failed seek reported under the directory-entry kind.
DirectorySeekErrorAsEntry(detail) == Err("CouldntReadEntry", detail)

\* The error kind of a failed seek to directory_offset.
DirectorySeekError(detail) == Err("CouldntReadHeader", detail)

EmptyIndex == [x \in {} |-> 0]

WadNew(k, s) ==
    LET header == WadHeaderNew(s) IN
    IF header.tag # "Ok" THEN header
    ELSE IF CapacityOverflow(header.val.num_lumps) THEN Panic("capacity overflow")
    ELSE LET sk == SeekStart(k, s, header.val.directory_offset) IN
    IF sk.tag = "Err" THEN DirectorySeekError(sk.detail)
    ELSE LET directory == ReadDirectory(s, sk.val, header.val.num_lumps, <<>>) IN
    IF directory.tag # "Ok" THEN directory
    ELSE LET ls == ReadLumps(k, s, directory.val, <<>>, EmptyIndex) IN
    IF ls.tag # "Ok" THEN ls
    ELSE Ok([directory |-> directory.val,
             lumps |-> ls.val.lumps,
             lump_index |-> ls.val.lump_index])

(***************************************************************************)
(* Wad::write.  A write result is [res, out]: the outcome and the bytes    *)
(* that reached the file.                                                  *)
(***************************************************************************)
\* WadHeader::write
WadHeaderWrite(header) ==
    PWAD \o I32ToLE(header.num_lumps) \o I32ToLE(header.directory_offset)

\* Mutation: an over-long name silently cut to the field.
NameFieldTruncating(name) == Ok(SubSeq(name \o Zeros(NameFieldLen), 1, NameFieldLen))

\* Cursor::new([0u8; 8]).write_all(name): the 8-byte field, or WriteZero
\* when the name does not fit.
NameField(name) ==
    IF Len(name) > NameFieldLen THEN Err("io", "WriteZero")
    ELSE Ok(name \o Zeros(NameFieldLen - Len(name)))

\* DirectoryEntry::write, appending to the bytes already written.
DirectoryEntryWrite(entry, out) ==
    LET out2 == out \o I32ToLE(entry.offset) \o I32ToLE(entry.size)
        field == NameField(entry.name)
    IN  IF field.tag = "Err"
        THEN [res |-> Err("CouldntWriteEntry", field.detail), out |-> out2]
        ELSE [res |-> Ok("unit"), out |-> out2 \o field.val]

\* Mutation: the running offset is never advanced.
NextOffsetStuck(offset, lump) == offset

\* offset.try_into().unwrap() and the advance of the running offset.
FirstOffset(n) == HeaderLen + n * EntryLen

NextOffset(offset, lump) == offset + Len(lump.data)

\* for lump in &self.lumps { entry.write(f)?; offset += lump.data.len() }
RECURSIVE WriteEntries(_, _, _)
WriteEntries(lumps, offset, out) ==
    IF lumps = <<>> THEN [res |-> Ok("unit"), out |-> out]
    ELSE IF offset > I32Max THEN [res |-> Panic("try_into"), out |-> out]
    ELSE LET lump == Head(lumps)
             w == DirectoryEntryWrite([offset |-> offset,
                                       size |-> AsI32(Len(lump.data)),
                                       name |-> lump.name], out)
         IN  IF w.res.tag # "Ok" THEN w
             ELSE WriteEntries(Tail(lumps), NextOffset(offset, lump), w.out)

\* Mutation: the payloads written last to first.
RECURSIVE WriteLumpsReversed(_, _)
WriteLumpsReversed(lumps, out) ==
    IF lumps = <<>> THEN out
    ELSE WriteLumpsReversed(SubSeq(lumps, 1, Len(lumps) - 1),
                            out \o lumps[Len(lumps)].data)

\* for lump in &self.lumps { lump.write(f)? }
RECURSIVE WriteLumps(_, _)
WriteLumps(lumps, out) ==
    IF lumps = <<>> THEN out
    ELSE WriteLumps(Tail(lumps), out \o Head(lumps).data)

WadWrite(w) ==
    LET n == Len(w.directory)
        h == WadHeaderWrite([num_lumps |-> AsI32(n), directory_offset |-> HeaderLen])
        d == WriteEntries(w.lumps, FirstOffset(n), h)
    IN  IF d.res.tag # "Ok" THEN d
        ELSE [res |-> Ok("unit"), out |-> WriteLumps(w.lumps, d.out)]

(***************************************************************************)
(* Directory::iter and DirectoryIter::next                                 *)
(***************************************************************************)
DirectoryIterNew(directory) == [inner |-> directory, items |-> <<>>, last |-> "start"]

DirectoryIterNext(it) ==
    IF it.inner = <<>> THEN [it EXCEPT !.last = "None"]
    ELSE [inner |-> Tail(it.inner),
          items |-> Append(it.items, Head(it.inner)),
          last |-> "Some"]

(***************************************************************************)
(* wad_de.rs: WadDeserializer.  A target type T is [signed, size]: its     *)
(* signedness and size_of::<T>().  A value of T is its little-endian limb  *)
(* sequence, size limbs of 8 bits.                                         *)
(***************************************************************************)
Shapes == [signed : BOOLEAN, size : {1, 2, 4, 8}]

\* T::zero()
Zero(T) == Zeros(T.size)

\* T::from(b): None when b does not fit T (only i8, for b > 127).
CastFits(T, b) == ~(T.signed /\ T.size = 1 /\ b > 127)

\* result + v in T, wrapping: ripple-carry over the limbs.
RECURSIVE AddCarry(_, _)
AddCarry(limbs, carry) ==
    IF limbs = <<>> THEN <<>>
    ELSE LET t == Head(limbs) + carry
         IN  <<t % 256>> \o AddCarry(Tail(limbs), t \div 256)

RECURSIVE CarryOut(_, _)
CarryOut(limbs, carry) ==
    IF limbs = <<>> THEN carry
    ELSE CarryOut(Tail(limbs), (Head(limbs) + carry) \div 256)

\* Whether result + b overflows T (b is a byte, so never negative).
AddOverflows(T, limbs, b) ==
    IF T.signed
    THEN limbs[T.size] < 128 /\ AddCarry(limbs, b)[T.size] >= 128
    ELSE CarryOut(limbs, b) # 0

\* value << shift in T, for a shift that is a multiple of 8 below the width:
\* the limbs move up, the ones shifted out are dropped.
Shl(limbs, shift) ==
    LET k == shift \div 8
    IN  [i \in 1..Len(limbs) |-> IF i > k THEN limbs[i - k] ELSE 0]

\* peek_byte / next_byte on the remaining input.
peek_byte(in) == IF in = <<>> THEN Err("UnexpectedEof", "") ELSE Ok(in[1])

next_byte(in) ==
    LET b == peek_byte(in)
    IN  IF b.tag # "Ok" THEN b ELSE Ok([b |-> b.val, input |-> Tail(in)])

\* One round of the loop body: result = result + T::from(b).unwrap() << shift,
\* which Rust parses as (result + T::from(b).unwrap()) << shift.
Accumulate(result, b, shift) == Shl(AddCarry(result, b), shift)

\* The loop of parse_unsigned / parse_signed.  `checked` is the build's
\* overflow-checks setting (on: an overflowing + panics; off: it wraps).
RECURSIVE ParseLoop(_, _, _, _, _, _)
ParseLoop(T, in, i, result, shift, checked) ==
    IF i = T.size THEN Ok([value |-> result, input |-> in])
    ELSE LET nb == next_byte(in) IN
         IF nb.tag # "Ok" THEN nb
         ELSE IF ~CastFits(T, nb.val.b) THEN Panic("unwrap on None")
         ELSE IF checked /\ AddOverflows(T, result, nb.val.b)
              THEN Panic("attempt to add with overflow")
         ELSE ParseLoop(T, nb.val.input, i + 1,
                        Accumulate(result, nb.val.b, shift), shift + 8, checked)

parse_unsigned(T, in, checked) == ParseLoop(T, in, 0, Zero(T), 0, checked)

parse_signed(T, in, checked) == ParseLoop(T, in, 0, Zero(T), 0, checked)

\* T::deserialize for a primitive integer T: deserialize_i8 .. deserialize_u64,
\* whose visitor returns the parsed value.
Deserialize(T, in, checked) ==
    IF T.signed THEN parse_signed(T, in, checked)
    ELSE parse_unsigned(T, in, checked)

\* from_bytes::<T>(s)
from_bytes(T, s, checked) ==
    LET t == Deserialize(T, s, checked) IN
    IF t.tag # "Ok" THEN t
    ELSE IF t.val.input = <<>> THEN Ok(t.val.value)
         ELSE Err("TrailingBytes", "")

(***************************************************************************)
(* Inputs: the byte sources handed to Wad::new.                            *)
(***************************************************************************)
\* 8-byte name fields: "MAP01", "AB", "A\0B" (interior NUL), "ABCDEFGH",
\* all NUL, C3 00 A9 (a two-byte character split by a NUL), FF (no UTF-8),
\* "A" 00 FF (bad byte after a NUL).
FieldMAP01 == <<77, 65, 80, 48, 49, 0, 0, 0>>
FieldAB == <<65, 66, 0, 0, 0, 0, 0, 0>>
FieldA0B == <<65, 0, 66, 0, 0, 0, 0, 0>>
FieldFull == <<65, 66, 67, 68, 69, 70, 71, 72>>
FieldNul == <<0, 0, 0, 0, 0, 0, 0, 0>>
FieldSplit == <<195, 0, 169, 0, 0, 0, 0, 0>>
FieldBad == <<255, 0, 0, 0, 0, 0, 0, 0>>
FieldA0Bad == <<65, 0, 255, 0, 0, 0, 0, 0>>

GoodFields == {FieldMAP01, FieldAB, FieldA0B}
AllFields == {FieldMAP01, FieldAB, FieldA0B, FieldFull, FieldNul,
              FieldSplit, FieldBad, FieldA0Bad}

Magics == {IWAD, PWAD, <<73, 87, 65, 69>>, <<0, 0, 0, 0>>}

EntryBytes(e) == I32ToLE(e.offset) \o I32ToLE(e.size) \o e.field

RECURSIVE DirBytes(_)
DirBytes(es) == IF es = <<>> THEN <<>> ELSE EntryBytes(Head(es)) \o DirBytes(Tail(es))

Payload(n) == [i \in 1..n |-> 100 + i]

\* header, directory table, payload
DirFirst(magic, num_lumps, directory_offset, es, payload) ==
    magic \o I32ToLE(num_lumps) \o I32ToLE(directory_offset)
          \o DirBytes(es) \o payload

\* header, payload, directory table (the layout of the stock archives)
DirLast(magic, num_lumps, es, payload) ==
    magic \o I32ToLE(num_lumps) \o I32ToLE(HeaderLen + Len(payload))
          \o payload \o DirBytes(es)

RECURSIVE Sum(_)
Sum(xs) == IF xs = <<>> THEN 0 ELSE Head(xs) + Sum(Tail(xs))

\* Entries laid out back to back from `base`, with the given sizes and fields.
Packed(base, sizes, fields) ==
    [i \in 1..Len(sizes) |->
        [offset |-> base + Sum(SubSeq(sizes, 1, i - 1)),
         size |-> sizes[i], field |-> fields[i]]]

\* Well-formed archives of up to MaxLumps lumps, names possibly repeated,
\* with the directory before or after the payload.  (Every magic is tried
\* by Truncated below.)
WellFormed(s) ==
    \E n \in 0..MaxLumps :
      \E sizes \in [1..n -> {0, 2}], fields \in [1..n -> GoodFields] :
        \/ s = DirFirst(PWAD, n, HeaderLen,
                        Packed(HeaderLen + n * EntryLen, sizes, fields),
                        Payload(Sum(sizes)))
        \/ /\ n = 2
           /\ s = DirLast(IWAD, n, Packed(HeaderLen, sizes, fields), Payload(Sum(sizes)))

\* Archives whose header and entries lie about the source: negative or
\* oversized counts, offsets and sizes, and sources cut short.
BadOffsets(base) == {-1, base + 1, I32Max}
BadSizes == {-1, 0, 2}

Cuts(len, n) == {len, len - 1, HeaderLen + n * EntryLen - 1}

Malformed(s) ==
    \E n \in 0..MaxBadLumps :
      \E offs \in [1..n -> BadOffsets(HeaderLen + n * EntryLen)],
         sizes \in [1..n -> BadSizes],
         num_lumps \in {-1, 0, n, n + 1},
         directory_offset \in {-1, HeaderLen} :
        LET full == DirFirst(PWAD, num_lumps, directory_offset,
                             [i \in 1..n |-> [offset |-> offs[i], size |-> sizes[i],
                                              field |-> FieldAB]],
                             Payload(3))
        IN  \E cut \in Cuts(Len(full), n) : s = SubSeq(full, 1, cut)

\* One-entry archives over every name field and magic, cut at every length.
Truncated(s) ==
    \E magic \in Magics, field \in AllFields :
      \E cut \in 0..(HeaderLen + EntryLen + 2) :
        s = SubSeq(DirFirst(magic, 1, HeaderLen,
                            <<[offset |-> HeaderLen + EntryLen, size |-> 2,
                               field |-> field]>>,
                            Payload(2)), 1, cut)

(***************************************************************************)
(* Inputs: in-memory archives handed to Wad::write by a caller that has    *)
(* edited the public `lumps` of an opened archive.                         *)
(***************************************************************************)
WriteNames == {<<>>, <<65>>, FilterNul(FieldFull), FilterNul(FieldFull) \o <<73>>}
WriteSizes == {0, 7, 10}

Archives(w) ==
    \E n \in 0..MaxWriteLumps :
      \E names \in [1..n -> WriteNames], sizes \in [1..n -> WriteSizes],
         nd \in {n, n + 1} \cup (IF n > 0 THEN {n - 1} ELSE {}) :
        w = [directory |-> [i \in 1..nd |-> [offset |-> 0, size |-> 0, name |-> <<>>]],
             lumps |-> [i \in 1..n |-> [name |-> names[i], data |-> Payload(sizes[i])]],
             lump_index |-> EmptyIndex]

(***************************************************************************)
(* Inputs: buffers handed to the byte-cursor decoder.                      *)
(***************************************************************************)
DeBytes == {0, 1, 255}

Buffers(T, buf) == \E l \in 0..(T.size + MaxExtra) : buf \in [1..l -> DeBytes]

(***************************************************************************)
(* Actions.                                                                *)
(***************************************************************************)
\* let wad = Wad::new(path)
Open ==
    /\ opened = None
    /\ opened' = WadNew(kind, src)
    /\ wad' = IF opened'.tag = "Ok" THEN opened'.val ELSE wad
    /\ UNCHANGED <<src, kind, iter, written, reopened, shape, input, parsed, decoded>>

\* wad.directory.iter()
Iter ==
    /\ wad # None
    /\ iter = None
    /\ iter' = DirectoryIterNew(wad.directory)
    /\ UNCHANGED <<src, kind, opened, wad, written, reopened, shape, input, parsed, decoded>>

\* DirectoryIter::next
IterNext ==
    /\ iter # None
    /\ iter.last # "None"
    /\ iter' = DirectoryIterNext(iter)
    /\ UNCHANGED <<src, kind, opened, wad, written, reopened, shape, input, parsed, decoded>>

\* wad.write(path)
Write ==
    /\ wad # None
    /\ written = None
    /\ written' = WadWrite(wad)
    /\ UNCHANGED <<src, kind, opened, wad, iter, reopened, shape, input, parsed, decoded>>

\* Wad::new(path) on the file that write produced
Reopen ==
    /\ written # None
    /\ written.res.tag = "Ok"
    /\ reopened = None
    /\ reopened' = WadNew("File", written.out)
    /\ UNCHANGED <<src, kind, opened, wad, iter, written, shape, input, parsed, decoded>>

\* T::deserialize(&mut WadDeserializer::from_bytes(input))
Parse ==
    /\ shape # None
    /\ parsed = None
    /\ \E checked \in BOOLEAN : parsed' = Deserialize(shape, input, checked)
    /\ UNCHANGED <<src, kind, opened, wad, iter, written, reopened, shape, input, decoded>>

\* from_bytes::<T>(input)
FromBytes ==
    /\ shape # None
    /\ decoded = None
    /\ \E checked \in BOOLEAN : decoded' = from_bytes(shape, input, checked)
    /\ UNCHANGED <<src, kind, opened, wad, iter, written, reopened, shape, input, parsed>>

(***************************************************************************)
(* Specifications.                                                         *)
(***************************************************************************)
Idle ==
    /\ opened = None /\ wad = None /\ iter = None
    /\ written = None /\ reopened = None
    /\ parsed = None /\ decoded = None

\* Open an archive from a byte source, then iterate it, write it, reopen it.
Init ==
    /\ \/ WellFormed(src)
       \/ Malformed(src)
       \/ Truncated(src)
    /\ kind \in Kinds
    /\ shape = None /\ input = <<>>
    /\ Idle

Next == Open \/ Iter \/ IterNext \/ Write \/ Reopen

Spec == Init /\ [][Next]_vars

\* Write an archive the caller holds in memory, then open what was written.
InitWrite ==
    /\ src = <<>> /\ kind = "File"
    /\ shape = None /\ input = <<>>
    /\ opened = None /\ iter = None
    /\ written = None /\ reopened = None
    /\ parsed = None /\ decoded = None
    /\ Archives(wad)

NextWrite == Write \/ Reopen

SpecWrite == InitWrite /\ [][NextWrite]_vars

\* Decode one primitive integer from a buffer.
InitDe ==
    /\ src = <<>> /\ kind = "File"
    /\ Idle
    /\ shape \in Shapes
    /\ Buffers(shape, input)

NextDe == Parse \/ FromBytes

SpecDe == InitDe /\ [][NextDe]_vars

(***************************************************************************)
(* Properties.  They are stated over the bytes of the source and of the    *)
(* written stream, read back independently of the operators above.         *)
(***************************************************************************)
HeaderReadable(s) == Len(s) >= HeaderLen /\ SubSeq(s, 1, 4) \in {IWAD, PWAD}

NumLumpsOf(s) == I32FromLE(SubSeq(s, 5, 8))

DirectoryOffsetOf(s) == I32FromLE(SubSeq(s, 9, 12))

\* Where the directory table is read from; past the end when the offset is
\* negative.
DirPos(s) == IF DirectoryOffsetOf(s) < 0 THEN Len(s) + 1 ELSE DirectoryOffsetOf(s)

EntryReadable(s, i) == DirPos(s) + EntryLen * i <= Len(s)

FieldAt(s, i) ==
    SubSeq(s, DirPos(s) + EntryLen * (i - 1) + 9, DirPos(s) + EntryLen * i)

NonNul(field) == SelectSeq(field, LAMBDA c : c # 0)

SeekFails(k, s) == k = "File" /\ DirectoryOffsetOf(s) < 0

\* The directory phase of Wad::new is entered: the header was read and the
\* directory vector was allocated.
DirectoryPhase(s) == HeaderReadable(s) /\ NumLumpsOf(s) >= 0

Min(S) == CHOOSE x \in S : \A y \in S : x <= y

Max(S) == CHOOSE x \in S : \A y \in S : x >= y

\* C1 (round trip): whenever Wad::new succeeded on the source, Wad::write of
\* the archive succeeds, and Wad::new on the written stream succeeds with the
\* same number of entries, the same names in the same order, the same sizes
\* and the same lump bytes at every position.
C1_RoundTrip ==
    (opened.tag = "Ok" /\ written # None) =>
        /\ written.res.tag = "Ok"
        /\ reopened # None =>
             /\ reopened.tag = "Ok"
             /\ Len(reopened.val.directory) = Len(opened.val.directory)
             /\ Len(reopened.val.lumps) = Len(opened.val.lumps)
             /\ \A i \in 1..Len(opened.val.directory) :
                  /\ reopened.val.directory[i].name = opened.val.directory[i].name
                  /\ reopened.val.directory[i].size = opened.val.directory[i].size
                  /\ reopened.val.lumps[i].name = opened.val.lumps[i].name
                  /\ reopened.val.lumps[i].data = opened.val.lumps[i].data

\* An IWAD with the directory after the payload was opened, written and
\* reopened: two lumps, one of them non-empty, and the offsets have changed.
C1_Witness ==
    /\ opened.tag = "Ok" /\ reopened.tag = "Ok"
    /\ SubSeq(src, 1, 4) = IWAD
    /\ Len(opened.val.lumps) = 2
    /\ \E i \in 1..2 : opened.val.lumps[i].data # <<>>
    /\ \E i \in 1..2 :
         reopened.val.directory[i].offset # opened.val.directory[i].offset

\* C2 (offset contiguity on write): for an archive of n entries with names of
\* at most 8 bytes, the written stream is a header declaring n lumps and
\* directory offset 12, n 16-byte records and the n payloads; record i holds
\* offset 12 + 16n + (lengths of payloads before i) and the payload's length,
\* payload i sits exactly there, and the stream is 12 + 16n + (all lengths)
\* bytes long.
C2_OffsetContiguity ==
    ( /\ written # None
      /\ Len(wad.directory) = Len(wad.lumps)
      /\ \A i \in 1..Len(wad.lumps) : Len(wad.lumps[i].name) <= 8 ) =>
        LET n == Len(wad.lumps)
            out == written.out
            base == 12 + 16 * n
            Before(i) == SumLen([j \in 1..(i - 1) |-> wad.lumps[j].data])
            Rec(i) == SubSeq(out, 12 + 16 * (i - 1) + 1, 12 + 16 * i)
        IN  /\ written.res.tag = "Ok"
            /\ Len(out) = base + Before(n + 1)
            /\ SubSeq(out, 1, 4) = PWAD
            /\ I32FromLE(SubSeq(out, 5, 8)) = n
            /\ I32FromLE(SubSeq(out, 9, 12)) = 12
            /\ \A i \in 1..n :
                 /\ I32FromLE(SubSeq(Rec(i), 1, 4)) = base + Before(i)
                 /\ I32FromLE(SubSeq(Rec(i), 5, 8)) = Len(wad.lumps[i].data)
                 /\ SubSeq(out, base + Before(i) + 1,
                           base + Before(i) + Len(wad.lumps[i].data))
                      = wad.lumps[i].data

\* Payloads of 10, 0 and 7 bytes were written at offsets 60, 70, 70 in a
\* stream of 77 bytes.
C2_Witness ==
    /\ written # None /\ written.res.tag = "Ok"
    /\ Len(wad.directory) = 3 /\ Len(wad.lumps) = 3
    /\ [i \in 1..3 |-> Len(wad.lumps[i].data)] = <<10, 0, 7>>
    /\ [i \in 1..3 |-> I32FromLE(SubSeq(written.out, 16 * i - 3, 16 * i))] = <<60, 70, 70>>
    /\ Len(written.out) = 77

\* C3 (little-endian integer decode): a read of an N-bit integer from a
\* cursor holding at least N/8 bytes succeeds for every byte value, consumes
\* exactly N/8 bytes and returns the value whose limbs, least significant
\* first, are those bytes.
C3_LittleEndian ==
    (parsed # None /\ Len(input) >= shape.size) =>
        /\ parsed.tag = "Ok"
        /\ parsed.val.value = SubSeq(input, 1, shape.size)
        /\ parsed.val.input = SubSeq(input, shape.size + 1, Len(input))

\* C4 (exact consumption and truncation): from_bytes on a shape of k bytes
\* succeeds on exactly k bytes, fails with UnexpectedEof on fewer and with
\* TrailingBytes on more.
C4_ExactConsumption ==
    decoded # None =>
        /\ Len(input) = shape.size => decoded.tag = "Ok"
        /\ Len(input) < shape.size =>
             decoded.tag = "Err" /\ decoded.kind = "UnexpectedEof"
        /\ Len(input) > shape.size =>
             decoded.tag = "Err" /\ decoded.kind = "TrailingBytes"

\* Name decoding under a given reading D of the 8-byte field: every entry of
\* an opened archive carries D(field) as its name, and the open fails with
\* InvalidLumpName exactly when a field that is read has a D(field) that is
\* not valid UTF-8.
NameDecoding(D(_)) ==
    (opened # None /\ DirectoryPhase(src) /\ ~SeekFails(kind, src)) =>
        LET n == NumLumpsOf(src)
            Bad == {i \in 1..n : EntryReadable(src, i) /\ ~ValidUtf8(D(FieldAt(src, i)))}
        IN  /\ Bad # {} => opened.tag = "Err" /\ opened.kind = "InvalidLumpName"
            /\ Bad = {} => ~(opened.tag = "Err" /\ opened.kind = "InvalidLumpName")
            /\ opened.tag = "Ok" =>
                 /\ Len(opened.val.directory) = n
                 /\ \A i \in 1..n : opened.val.directory[i].name = D(FieldAt(src, i))

\* C5 as stated (name decoding): the decoded name is the field without its
\* trailing run of NULs, and a remainder that is not valid UTF-8 fails with
\* InvalidLumpName.
C5_TrailingNulStripped == NameDecoding(StripTrailingNul)

\* C5 as amended: the decoded name is the field's non-NUL bytes in order
\* (every NUL is removed, interior ones included), and a remainder that is
\* not valid UTF-8 fails with InvalidLumpName.
C5_EveryNulRemoved == NameDecoding(NonNul)

\* A field with a NUL between two letters was decoded to the two letters.
C5_Witness ==
    /\ opened.tag = "Ok"
    /\ \E i \in 1..Len(opened.val.directory) :
         /\ FieldAt(src, i) = FieldA0B
         /\ opened.val.directory[i].name = <<65, 66>>

\* C6 (name shadowing): after a successful open, lump_index maps every name
\* of the directory, and nothing else, to the position of the last entry
\* carrying it; every indexed position is a position of directory and of
\* lumps; and the iterator yields the entries of the directory, duplicates
\* included, in file order.
C6_NameShadowing ==
    opened.tag = "Ok" =>
        LET d == opened.val.directory
            ix == opened.val.lump_index
        IN  /\ Len(opened.val.lumps) = Len(d)
            /\ DOMAIN ix = {d[i].name : i \in 1..Len(d)}
            /\ \A nm \in DOMAIN ix :
                 /\ ix[nm] \in 0..(Len(d) - 1)
                 /\ ix[nm] + 1 = Max({i \in 1..Len(d) : d[i].name = nm})
            /\ iter # None =>
                 /\ iter.items \o iter.inner = d
                 /\ iter.last = "None" => iter.items = d

\* Entries 0 and 3 carry the same name, the index gives 3, and the iterator
\* has yielded all four entries.
C6_Witness ==
    /\ opened.tag = "Ok"
    /\ Len(opened.val.directory) = 4
    /\ opened.val.directory[1].name = opened.val.directory[4].name
    /\ opened.val.directory[2].name # opened.val.directory[1].name
    /\ opened.val.lump_index[opened.val.directory[1].name] = 3
    /\ iter # None /\ iter.last = "None" /\ Len(iter.items) = 4

\* C7 (bounds violation is a failure, not a panic): Wad::new returns either
\* an archive with num_lumps entries and lumps, each lump the source bytes
\* [offset, offset + size) of its entry, or a typed error; it never panics.
C7_NeverPanics ==
    opened # None =>
        /\ opened.tag \in {"Ok", "Err"}
        /\ opened.tag = "Ok" =>
             /\ Len(opened.val.directory) = NumLumpsOf(src)
             /\ Len(opened.val.lumps) = NumLumpsOf(src)
             /\ \A i \in 1..Len(opened.val.lumps) :
                  LET e == opened.val.directory[i]
                  IN  opened.val.lumps[i].data =
                        IF e.size = 0 THEN <<>>
                        ELSE SubSeq(src, e.offset + 1, e.offset + e.size)

\* The table is cut short before Wad::new meets an invalid name.
TableTruncated(k, s) ==
    /\ ~SeekFails(k, s)
    /\ \E i \in 1..NumLumpsOf(s) :
         /\ ~EntryReadable(s, i)
         /\ \A j \in 1..(i - 1) : ValidUtf8(NonNul(FieldAt(s, j)))

\* C8 as stated (directory-phase error kind): a failed seek to
\* directory_offset and a truncated directory table are both reported as
\* CouldntReadEntry.
C8_AlwaysCouldntReadEntry ==
    ( /\ opened # None /\ DirectoryPhase(src)
      /\ (SeekFails(kind, src) \/ TableTruncated(kind, src)) ) =>
        opened.tag = "Err" /\ opened.kind = "CouldntReadEntry"

\* C8 as amended: a failed seek to directory_offset is reported as
\* CouldntReadHeader, a truncated directory table as CouldntReadEntry; either
\* aborts the open and no archive is returned.
C8_SeekIsCouldntReadHeader ==
    (opened # None /\ DirectoryPhase(src)) =>
        /\ SeekFails(kind, src) =>
             /\ opened.tag = "Err" /\ opened.kind = "CouldntReadHeader"
             /\ wad = None
        /\ TableTruncated(kind, src) =>
             /\ opened.tag = "Err" /\ opened.kind = "CouldntReadEntry"
             /\ wad = None

\* A file with a valid 12-byte header and a negative directory_offset was
\* opened and the seek failed.
C8_Witness ==
    /\ opened # None /\ DirectoryPhase(src) /\ SeekFails(kind, src)
    /\ NumLumpsOf(src) > 0
    /\ opened.tag = "Err" /\ opened.kind = "CouldntReadHeader"

\* C9 (magic validation): a source of at least 4 bytes that does not start
\* with IWAD or PWAD fails with InvalidMagicNumber carrying those 4 bytes,
\* whatever follows; one that starts with IWAD or PWAD never fails with
\* InvalidMagicNumber.
C9_MagicValidation ==
    (opened # None /\ Len(src) >= 4) =>
        IF SubSeq(src, 1, 4) \in {IWAD, PWAD}
        THEN ~(opened.tag = "Err" /\ opened.kind = "InvalidMagicNumber")
        ELSE opened = Err("InvalidMagicNumber", SubSeq(src, 1, 4))

\* A source that ends right after 4 unrecognised bytes was rejected.
C9_Witness ==
    /\ Len(src) = 4
    /\ SubSeq(src, 1, 4) \notin {IWAD, PWAD}
    /\ opened.tag = "Err" /\ opened.kind = "InvalidMagicNumber"

\* C10 (over-long name on write): when some lump's name is longer than 8
\* bytes the write fails with CouldntWriteEntry at the first such lump k, and
\* the stream holds the header, the k-1 records before it and the 8 bytes of
\* offset and size of record k: no name field for k, no later record, no
\* payload.  Every name of at most 8 bytes that is written fills its field
\* right-padded with NULs.
C10_OverlongNameFails ==
    written # None =>
        LET n == Len(wad.lumps)
            Long == {i \in 1..n : Len(wad.lumps[i].name) > 8}
            k == IF Long = {} THEN n + 1 ELSE Min(Long)
            out == written.out
        IN  /\ Long # {} =>
                 /\ written.res.tag = "Err" /\ written.res.kind = "CouldntWriteEntry"
                 /\ Len(out) = 12 + 16 * (k - 1) + 8
            /\ Long = {} => written.res.tag = "Ok"
            /\ \A i \in 1..(k - 1) :
                 /\ SubSeq(out, 16 * i + 5, 16 * i + 4 + Len(wad.lumps[i].name))
                      = wad.lumps[i].name
                 /\ \A j \in (16 * i + 5 + Len(wad.lumps[i].name))..(16 * i + 12) :
                      out[j] = 0

\* The second of three lumps has a 9-byte name: the write failed after one
\* full record and 8 bytes of the second.
C10_Witness ==
    /\ written # None
    /\ Len(wad.lumps) = 3
    /\ Len(wad.lumps[1].name) = 8
    /\ Len(wad.lumps[2].name) = 9
    /\ written.res.tag = "Err"
    /\ Len(written.out) = 36

====
